---- MODULE Spec2Model ----
(***************************************************************************)
(* A model of srtlib (src/src/lib.rs): the Timestamp carry arithmetic, the  *)
(* shifts of a Subtitle, the timecode and subtitle grammar (parse /        *)
(* Display, and the errors of parse), and the Subtitles collection         *)
(* (parse_from_str, push, sort, Display).                                  *)
(*                                                                         *)
(* Strings are sequences of characters; a character is a one-element       *)
(* string, except the byte-order mark U+FEFF, written "BOM".               *)
(***************************************************************************)
EXTENDS Integers, Sequences, FiniteSets, TLC

VARIABLES
    overflow_checks,  \* build profile: TRUE = debug (overflow panics), FALSE = release (wraps)
    timestamp,        \* the Timestamp the arithmetic calls act on
    panic,            \* NoPanic, or the panic that ended the program
    call,             \* the last call made: its name, its argument, the state before it
    steps,            \* number of calls made so far
    input,            \* the String handed to a parser
    output,           \* the Result the last parser call returned
    subs,             \* the Subtitles collection
    rendered,         \* the String the last to_string() call returned
    subtitle,         \* the Subtitle the shift calls act on
    pc                \* position of the driving program

vars ==
    <<overflow_checks, timestamp, panic, call, steps, input, output, subs, rendered,
      subtitle, pc>>

(***************************************************************************)
(* Machine integers.                                                       *)
(***************************************************************************)
U8MAX == 255
U16MAX == 65535
I32MAX == 2147483647
I32MIN == -I32MAX - 1

\* Rust's `/` on i32 with a positive divisor: truncation toward zero.
TruncDiv(a, b) == IF a >= 0 THEN a \div b ELSE (a + b - 1) \div b

\* Rust's `%` on i32 with a positive divisor: the remainder has the sign of a.
TruncRem(a, b) == a - b * TruncDiv(a, b)

\* i32::unsigned_abs for the small values it is applied to.
unsigned_abs(a) == IF a < 0 THEN -a ELSE a

\* `field as i32 + n` for a field >= 0: whether the i32 addition overflows, and
\* the two's-complement value a build without overflow checks computes.
WrapAdd(field, n) ==
    IF n > I32MAX - field
    THEN [overflow |-> TRUE, value |-> I32MIN + (n - (I32MAX - field) - 1)]
    ELSE [overflow |-> FALSE, value |-> field + n]

\* `-n` on i32: i32::MIN has no negation; a build without overflow checks yields i32::MIN.
WrapNeg(n) ==
    IF n = I32MIN
    THEN [overflow |-> TRUE, value |-> I32MIN]
    ELSE [overflow |-> FALSE, value |-> -n]

(***************************************************************************)
(* Timestamp: the struct and its arithmetic.                               *)
(***************************************************************************)
Timestamp_new(hours, minutes, seconds, milliseconds) ==
    [hours |-> hours, minutes |-> minutes, seconds |-> seconds,
     milliseconds |-> milliseconds]

NoPanic == "none"
LimitsPanic == "Surpassed limits of Timestamp!"
OverflowPanic == "arithmetic overflow"

\* The state of a running call: the timestamp as mutated so far and the panic,
\* if any, that stopped it. A call on a panicked state does nothing: the panic
\* has already unwound past it.
Running(t) == [t |-> t, panic |-> NoPanic]

\* add_hours refusing to reach the largest hour.
add_hours_below_max(self, n) ==
    IF self.panic # NoPanic THEN self
    ELSE IF n >= U8MAX - self.t.hours /\ n > 0 THEN [self EXCEPT !.panic = LimitsPanic]
    ELSE IF WrapNeg(n).overflow /\ overflow_checks
         THEN [self EXCEPT !.panic = OverflowPanic]
    ELSE IF WrapNeg(n).value > self.t.hours THEN [self EXCEPT !.panic = LimitsPanic]
    ELSE [self EXCEPT !.t.hours = (self.t.hours + n) % (U8MAX + 1)]

add_hours(self, n) ==
    IF self.panic # NoPanic THEN self
    ELSE IF n > U8MAX - self.t.hours THEN [self EXCEPT !.panic = LimitsPanic]
    ELSE IF WrapNeg(n).overflow /\ overflow_checks
         THEN [self EXCEPT !.panic = OverflowPanic]
    ELSE IF WrapNeg(n).value > self.t.hours THEN [self EXCEPT !.panic = LimitsPanic]
    ELSE [self EXCEPT !.t.hours = (self.t.hours + n) % (U8MAX + 1)]

\* add_minutes with the final `% 60` left out.
add_minutes_unreduced(self, n) ==
    IF self.panic # NoPanic THEN self
    ELSE LET sum == WrapAdd(self.t.minutes, n) IN
         IF sum.overflow /\ overflow_checks
         THEN [self EXCEPT !.panic = OverflowPanic]
         ELSE LET delta == TruncRem(sum.value, 60)
                  carried == add_hours(self, TruncDiv(sum.value, 60)
                                             - (IF delta < 0 THEN 1 ELSE 0))
              IN  IF carried.panic # NoPanic THEN carried
                  ELSE [carried EXCEPT !.t.minutes = unsigned_abs(60 + delta)]

add_minutes(self, n) ==
    IF self.panic # NoPanic THEN self
    ELSE LET sum == WrapAdd(self.t.minutes, n) IN
         IF sum.overflow /\ overflow_checks
         THEN [self EXCEPT !.panic = OverflowPanic]
         ELSE LET delta == TruncRem(sum.value, 60)
                  carried == add_hours(self, TruncDiv(sum.value, 60)
                                             - (IF delta < 0 THEN 1 ELSE 0))
              IN  IF carried.panic # NoPanic THEN carried
                  ELSE [carried EXCEPT
                          !.t.minutes = unsigned_abs(TruncRem(60 + delta, 60))]

\* add_seconds making the carry call only when there is something to carry.
add_seconds_carry_if_any(self, n) ==
    IF self.panic # NoPanic THEN self
    ELSE LET sum == WrapAdd(self.t.seconds, n) IN
         IF sum.overflow /\ overflow_checks
         THEN [self EXCEPT !.panic = OverflowPanic]
         ELSE LET delta == TruncRem(sum.value, 60)
                  carry == TruncDiv(sum.value, 60) - (IF delta < 0 THEN 1 ELSE 0)
                  carried == IF carry = 0 THEN self ELSE add_minutes(self, carry)
              IN  IF carried.panic # NoPanic THEN carried
                  ELSE [carried EXCEPT
                          !.t.seconds = unsigned_abs(TruncRem(60 + delta, 60))]

add_seconds(self, n) ==
    IF self.panic # NoPanic THEN self
    ELSE LET sum == WrapAdd(self.t.seconds, n) IN
         IF sum.overflow /\ overflow_checks
         THEN [self EXCEPT !.panic = OverflowPanic]
         ELSE LET delta == TruncRem(sum.value, 60)
                  carried == add_minutes(self, TruncDiv(sum.value, 60)
                                               - (IF delta < 0 THEN 1 ELSE 0))
              IN  IF carried.panic # NoPanic THEN carried
                  ELSE [carried EXCEPT
                          !.t.seconds = unsigned_abs(TruncRem(60 + delta, 60))]

add_milliseconds(self, n) ==
    IF self.panic # NoPanic THEN self
    ELSE LET sum == WrapAdd(self.t.milliseconds, n) IN
         IF sum.overflow /\ overflow_checks
         THEN [self EXCEPT !.panic = OverflowPanic]
         ELSE LET delta == TruncRem(sum.value, 1000)
                  carried == add_seconds(self, TruncDiv(sum.value, 1000)
                                               - (IF delta < 0 THEN 1 ELSE 0))
              IN  IF carried.panic # NoPanic THEN carried
                  ELSE [carried EXCEPT
                          !.t.milliseconds = unsigned_abs(TruncRem(1000 + delta, 1000))]

add(self, other) ==
    add_milliseconds(
        add_seconds(
            add_minutes(
                add_hours(self, other.hours),
                other.minutes),
            other.seconds),
        other.milliseconds)

sub(self, other) ==
    add_hours(
        add_minutes(
            add_seconds(
                add_milliseconds(self, -other.milliseconds),
                -other.seconds),
            -other.minutes),
        -other.hours)

Timestamp_set(self, hours, minutes, seconds, milliseconds) ==
    [self EXCEPT !.hours = hours, !.minutes = minutes, !.seconds = seconds,
                 !.milliseconds = milliseconds]

(***************************************************************************)
(* The program driving the Timestamp arithmetic: a timestamp is constructed *)
(* with in-range fields and then shifted by a sequence of calls, as in      *)
(* tests::add_time_timestamp. A panic ends the program.                     *)
(***************************************************************************)
MaxSteps == 2

\* Timestamps the program starts from (all with minutes, seconds <= 59 and
\* milliseconds <= 999), near both ends of the range and in between.
StartTimestamps ==
    { Timestamp_new(0, 0, 0, 0),        Timestamp_new(0, 0, 0, 999),
      Timestamp_new(0, 59, 59, 999),    Timestamp_new(1, 3, 6, 200),
      Timestamp_new(1, 0, 0, 0),        Timestamp_new(254, 59, 59, 999),
      Timestamp_new(255, 0, 0, 0),      Timestamp_new(255, 59, 59, 999) }

\* The signed deltas passed to add_hours .. add_milliseconds.
Deltas == {I32MIN, -61, -10, -1, 0, 1, 60, 255, 1200, I32MAX}

\* The timestamps passed to add and sub.
DeltaTimestamps ==
    { Timestamp_new(0, 0, 0, 0),  Timestamp_new(0, 0, 0, 1),
      Timestamp_new(1, 20, 0, 0), Timestamp_new(0, 59, 59, 999) }

\* What a parser-side variable holds while the arithmetic program runs.
Idle == <<>>

TsInit ==
    /\ subtitle = Idle
    /\ overflow_checks \in BOOLEAN
    /\ timestamp \in StartTimestamps
    /\ panic = NoPanic
    /\ call = [op |-> "new", arg |-> 0, pre |-> timestamp]
    /\ steps = 0
    /\ input = Idle /\ output = Idle /\ subs = Idle /\ rendered = Idle
    /\ pc = "ts"

\* One call on the timestamp: `after` is the state the call leaves.
TsCall(op, arg, after) ==
    /\ pc = "ts"
    /\ panic = NoPanic
    /\ steps < MaxSteps
    /\ timestamp' = after.t
    /\ panic' = after.panic
    /\ call' = [op |-> op, arg |-> arg, pre |-> timestamp]
    /\ steps' = steps + 1
    /\ UNCHANGED <<subtitle, overflow_checks, input, output, subs, rendered, pc>>

AddHours == \E n \in Deltas : TsCall("add_hours", n, add_hours(Running(timestamp), n))

AddMinutes == \E n \in Deltas : TsCall("add_minutes", n, add_minutes(Running(timestamp), n))

AddSeconds == \E n \in Deltas : TsCall("add_seconds", n, add_seconds(Running(timestamp), n))

AddMilliseconds ==
    \E n \in Deltas : TsCall("add_milliseconds", n, add_milliseconds(Running(timestamp), n))

Add == \E d \in DeltaTimestamps : TsCall("add", d, add(Running(timestamp), d))

Sub == \E d \in DeltaTimestamps : TsCall("sub", d, sub(Running(timestamp), d))

TsNext == AddHours \/ AddMinutes \/ AddSeconds \/ AddMilliseconds \/ Add \/ Sub

TsSpec == TsInit /\ [][TsNext]_vars

(***************************************************************************)
(* Exact time arithmetic, for stating the claims.                          *)
(***************************************************************************)
Total(t) == ((t.hours * 60 + t.minutes) * 60 + t.seconds) * 1000 + t.milliseconds

MaxTotal == Total(Timestamp_new(255, 59, 59, 999))

\* The normalized (hours, minutes, seconds, milliseconds) of a millisecond count.
FromTotal(ms) ==
    Timestamp_new(ms \div 3600000, (ms \div 60000) % 60, (ms \div 1000) % 60, ms % 1000)

Normalized(t) == t.minutes <= 59 /\ t.seconds <= 59 /\ t.milliseconds <= 999

InRange(t) ==
    /\ t.hours \in 0..255
    /\ t.minutes \in 0..59
    /\ t.seconds \in 0..59
    /\ t.milliseconds \in 0..999

UnitOps == {"add_hours", "add_minutes", "add_seconds", "add_milliseconds"}

Unit(op) ==
    CASE op = "add_hours" -> 3600000
      [] op = "add_minutes" -> 60000
      [] op = "add_seconds" -> 1000
      [] op = "add_milliseconds" -> 1

\* Whether Total(t) + n * unit lies in 0 .. MaxTotal, decided without forming
\* the product (which need not fit a machine integer).
ExactInRange(t, n, unit) ==
    /\ n >= -(Total(t) \div unit)
    /\ n <= (MaxTotal - Total(t)) \div unit

\* C1: a shift that does not fail leaves the normalized timestamp of the exact
\* sum: total(t) + n * unit for add_hours .. add_milliseconds, total(t) +
\* total(d) for add, total(t) - total(d) for sub.
C1_CarryCorrectness ==
    (pc = "ts" /\ steps > 0 /\ panic = NoPanic /\ Normalized(call.pre)) =>
        IF call.op \in UnitOps
        THEN /\ ExactInRange(call.pre, call.arg, Unit(call.op))
             /\ timestamp = FromTotal(Total(call.pre) + call.arg * Unit(call.op))
        ELSE IF call.op = "add"
        THEN timestamp = FromTotal(Total(call.pre) + Total(call.arg))
        ELSE timestamp = FromTotal(Total(call.pre) - Total(call.arg))

\* C2: add_hours .. add_milliseconds panic with "Surpassed limits of
\* Timestamp!" exactly when the exact result is below 00:00:00,000 or above
\* 255:59:59,999, and succeed otherwise.
C2_OverflowExact ==
    (pc = "ts" /\ steps > 0 /\ call.op \in UnitOps /\ Normalized(call.pre)) =>
        IF ExactInRange(call.pre, call.arg, Unit(call.op))
        THEN panic = NoPanic
        ELSE panic = LimitsPanic

\* C3: as long as no call fails, hours stay in 0..255, minutes and seconds in
\* 0..59 and milliseconds in 0..999.
C3_RangeInvariant ==
    (pc = "ts" /\ panic = NoPanic) => InRange(timestamp)

\* C3 witness: after two calls that did not fail, the last one carried into
\* the hours.
C3_Witness ==
    /\ pc = "ts" /\ steps = 2 /\ panic = NoPanic
    /\ call.op \in {"add_seconds", "add_milliseconds", "sub"}
    /\ timestamp.hours # call.pre.hours

(***************************************************************************)
(* Characters and strings.                                                 *)
(***************************************************************************)
BOM == "BOM"

DigitChars == <<"0", "1", "2", "3", "4", "5", "6", "7", "8", "9">>

\* The printable ASCII characters in code order: U+0020 .. U+005F, and
\* U+0061 .. U+007E (U+0060 is not a character of the model's alphabet).
AsciiLow ==
    <<
      " ", "!", "\"", "#", "$", "%", "&", "'", "(", ")", "*", "+", ",", "-",
      ".", "/", "0", "1", "2", "3", "4", "5", "6", "7", "8", "9", ":", ";",
      "<", "=", ">", "?", "@", "A", "B", "C", "D", "E", "F", "G", "H", "I",
      "J", "K", "L", "M", "N", "O", "P", "Q", "R", "S", "T", "U", "V", "W",
      "X", "Y", "Z", "[", "\\", "]", "^", "_"
    >>

AsciiHigh ==
    <<
      "a", "b", "c", "d", "e", "f", "g", "h", "i", "j", "k", "l", "m", "n",
      "o", "p", "q", "r", "s", "t", "u", "v", "w", "x", "y", "z", "{", "|",
      "}", "~"
    >>

Range(seq) == {seq[i] : i \in DOMAIN seq}

IndexOf(seq, c) == CHOOSE i \in DOMAIN seq : seq[i] = c

\* The code point of a character of the model's alphabet. Rust orders strings
\* by their UTF-8 bytes, which is the order of the code points.
CodePoint(c) ==
    CASE c = "\n" -> 10
      [] c = "\r" -> 13
      [] c = BOM -> 65279
      [] c \in Range(AsciiLow) -> 31 + IndexOf(AsciiLow, c)
      [] c \in Range(AsciiHigh) -> 96 + IndexOf(AsciiHigh, c)

IsDigit(c) == c \in Range(DigitChars)

\* char::is_alphanumeric on the model's alphabet.
is_alphanumeric(c) ==
    \/ IsDigit(c)
    \/ c \in {
            "A", "B", "C", "D", "E", "F", "G", "H", "I", "J", "K", "L", "M",
            "N", "O", "P", "Q", "R", "S", "T", "U", "V", "W", "X", "Y", "Z",
            "a", "b", "c", "d", "e", "f", "g", "h", "i", "j", "k", "l", "m",
            "n", "o", "p", "q", "r", "s", "t", "u", "v", "w", "x", "y", "z" }

contains_alphanumeric(s) == \E i \in DOMAIN s : is_alphanumeric(s[i])

contains(s, c) == \E i \in DOMAIN s : s[i] = c

\* The least index at which pat occurs in s, or 0.
Find(s, pat) ==
    LET hits == {i \in 1..(Len(s) - Len(pat) + 1) : SubSeq(s, i, i + Len(pat) - 1) = pat}
    IN  IF hits = {} THEN 0 ELSE CHOOSE i \in hits : \A j \in hits : i <= j

\* str::split(pat) for a non-empty pattern: the pieces between the
\* non-overlapping occurrences of pat, leftmost first.
RECURSIVE split(_, _)
split(s, pat) ==
    LET i == Find(s, pat) IN
    IF i = 0 THEN <<s>>
    ELSE <<SubSeq(s, 1, i - 1)>> \o split(SubSeq(s, i + Len(pat), Len(s)), pat)

\* str::splitn(n, pat), n >= 1: at most n pieces, the last one the remainder.
RECURSIVE splitn(_, _, _)
splitn(s, n, pat) ==
    LET i == Find(s, pat) IN
    IF n <= 1 \/ i = 0 THEN <<s>>
    ELSE <<SubSeq(s, 1, i - 1)>> \o splitn(SubSeq(s, i + Len(pat), Len(s)), n - 1, pat)

\* str::split_terminator(pat): split(pat) without a trailing empty piece.
split_terminator(s, pat) ==
    LET pieces == split(s, pat) IN
    IF pieces[Len(pieces)] = <<>> THEN SubSeq(pieces, 1, Len(pieces) - 1) ELSE pieces

\* str::trim_start_matches(c): every leading c removed.
trim_start_matches(s, c) ==
    LET kept == {i \in DOMAIN s : s[i] # c}
    IN  IF kept = {} THEN <<>>
        ELSE SubSeq(s, CHOOSE i \in kept : \A j \in kept : i <= j, Len(s))

\* str::replace(c, ""): every c removed.
remove_char(s, c) == SelectSeq(s, LAMBDA x : x # c)

(***************************************************************************)
(* Results and errors.                                                     *)
(***************************************************************************)
Nothing == <<>>

Ok(v) == [ok |-> TRUE, value |-> v, err |-> Nothing]

Err(e) == [ok |-> FALSE, value |-> Nothing, err |-> e]

\* Only BadSubtitleStructure carries a number; the others hold the zero usize.
ParseIntError == [kind |-> "ParseIntError", num |-> <<"0">>]

MalformedTimestamp == [kind |-> "MalformedTimestamp", num |-> <<"0">>]

BadSubtitleStructure(num) == [kind |-> "BadSubtitleStructure", num |-> num]

\* Iterator::next() on the pieces of a split, taken in order: the i-th piece,
\* or the error `missing` when the iterator is exhausted (ok_or).
next_ok_or(pieces, i, missing) ==
    IF i <= Len(pieces) THEN Ok(pieces[i]) ELSE Err(missing)

(***************************************************************************)
(* Decimal integers: str::parse::<u8 | u16 | usize> and "{}" / "{:0w}".    *)
(***************************************************************************)
RECURSIVE DecimalValue(_)
DecimalValue(digits) ==
    IF digits = <<>> THEN 0
    ELSE 10 * DecimalValue(SubSeq(digits, 1, Len(digits) - 1))
         + (IndexOf(DigitChars, digits[Len(digits)]) - 1)

\* <u8 | u16>::from_str: an optional leading "+", then one or more decimal
\* digits whose value is at most max; anything else is a ParseIntError. A run
\* of more than nine significant digits exceeds u8 and u16.
parse_unsigned(s, max) ==
    LET digits == IF s # <<>> /\ Head(s) = "+" THEN Tail(s) ELSE s
        significant == trim_start_matches(digits, "0")
    IN  IF digits = <<>> THEN Err(ParseIntError)
        ELSE IF \E i \in DOMAIN digits : ~IsDigit(digits[i]) THEN Err(ParseIntError)
        ELSE IF Len(significant) > 9 THEN Err(ParseIntError)
        ELSE IF DecimalValue(significant) > max THEN Err(ParseIntError)
        ELSE Ok(DecimalValue(significant))

\* The decimal digits of n >= 0 ("{}").
RECURSIVE to_decimal(_)
to_decimal(n) ==
    IF n < 10 THEN <<DigitChars[n + 1]>>
    ELSE to_decimal(n \div 10) \o <<DigitChars[(n % 10) + 1]>>

\* "{:0w}": the decimal digits of n, zero-padded on the left to width w.
RECURSIVE zero_pad(_, _)
zero_pad(digits, w) ==
    IF Len(digits) >= w THEN digits ELSE zero_pad(<<"0">> \o digits, w)

(***************************************************************************)
(* usize (the ordinal of a Subtitle). Its values go beyond the integers    *)
(* the model checker computes with, so a usize is held as its decimal      *)
(* numeral: the digits of the value without leading zeros, <<"0">> for     *)
(* zero. The target is a 64-bit one.                                       *)
(***************************************************************************)
\* usize::MAX = 2^64 - 1.
USIZE_MAX == <<"1", "8", "4", "4", "6", "7", "4", "4", "0", "7", "3", "7", "0", "9", "5", "5", "1", "6", "1", "5">>

\* The usize that an integer literal of the source denotes.
usize(n) == to_decimal(n)

\* Ord of usize: of two numerals the longer is the larger, and of two of one
\* length the one with the larger digit at the first difference.
usize_cmp(a, b) ==
    LET differ == {i \in DOMAIN a \cap DOMAIN b : a[i] # b[i]}
        first == CHOOSE i \in differ : \A j \in differ : i <= j
    IN  IF Len(a) # Len(b) THEN (IF Len(a) < Len(b) THEN -1 ELSE 1)
        ELSE IF differ = {} THEN 0
        ELSE IF IndexOf(DigitChars, a[first]) < IndexOf(DigitChars, b[first]) THEN -1
        ELSE 1

\* usize::from_str: an optional leading "+", then one or more decimal digits
\* whose value is at most usize::MAX; anything else is a ParseIntError.
parse_usize(s) ==
    LET digits == IF s # <<>> /\ Head(s) = "+" THEN Tail(s) ELSE s
        significant == trim_start_matches(digits, "0")
        value == IF significant = <<>> THEN <<"0">> ELSE significant
    IN  IF digits = <<>> THEN Err(ParseIntError)
        ELSE IF \E i \in DOMAIN digits : ~IsDigit(digits[i]) THEN Err(ParseIntError)
        ELSE IF usize_cmp(value, USIZE_MAX) > 0 THEN Err(ParseIntError)
        ELSE Ok(value)

\* "{}" of a usize: its decimal digits.
usize_to_string(n) == n

\* The `number` Display for ParsingError writes for BadSubtitleStructure(num).
number(num) ==
    IF usize_cmp(num, usize(0)) > 0 THEN usize_to_string(num)
    ELSE <<"u", "n", "k", "n", "o", "w", "n">>

(***************************************************************************)
(* Timestamp: parse and Display.                                           *)
(***************************************************************************)
\* Timestamp::parse with the milliseconds parsed as a u8.
Timestamp_parse_ms_u8(s) ==
    LET iter == splitn(s, 3, <<":">>)
        hours == parse_unsigned(iter[1], U8MAX)
        minutes_str == next_ok_or(iter, 2, MalformedTimestamp)
        minutes == parse_unsigned(minutes_str.value, U8MAX)
        rest == next_ok_or(iter, 3, MalformedTimestamp)
        second_iter == splitn(rest.value, 2, <<",">>)
        seconds == parse_unsigned(second_iter[1], U8MAX)
        milliseconds_str == next_ok_or(second_iter, 2, MalformedTimestamp)
        milliseconds == parse_unsigned(milliseconds_str.value, U8MAX)
    IN  IF ~hours.ok THEN hours
        ELSE IF ~minutes_str.ok THEN minutes_str
        ELSE IF ~minutes.ok THEN minutes
        ELSE IF ~rest.ok THEN rest
        ELSE IF ~seconds.ok THEN seconds
        ELSE IF ~milliseconds_str.ok THEN milliseconds_str
        ELSE IF ~milliseconds.ok THEN milliseconds
        ELSE Ok(Timestamp_new(hours.value, minutes.value, seconds.value,
                              milliseconds.value))

Timestamp_parse(s) ==
    LET iter == splitn(s, 3, <<":">>)
        hours == parse_unsigned(iter[1], U8MAX)
        minutes_str == next_ok_or(iter, 2, MalformedTimestamp)
        minutes == parse_unsigned(minutes_str.value, U8MAX)
        rest == next_ok_or(iter, 3, MalformedTimestamp)
        second_iter == splitn(rest.value, 2, <<",">>)
        seconds == parse_unsigned(second_iter[1], U8MAX)
        milliseconds_str == next_ok_or(second_iter, 2, MalformedTimestamp)
        milliseconds == parse_unsigned(milliseconds_str.value, U16MAX)
    IN  IF ~hours.ok THEN hours
        ELSE IF ~minutes_str.ok THEN minutes_str
        ELSE IF ~minutes.ok THEN minutes
        ELSE IF ~rest.ok THEN rest
        ELSE IF ~seconds.ok THEN seconds
        ELSE IF ~milliseconds_str.ok THEN milliseconds_str
        ELSE IF ~milliseconds.ok THEN milliseconds
        ELSE Ok(Timestamp_new(hours.value, minutes.value, seconds.value,
                              milliseconds.value))

\* Display for Timestamp with a "." before the milliseconds.
Timestamp_fmt_dot(t) ==
    zero_pad(to_decimal(t.hours), 2) \o <<":">>
    \o zero_pad(to_decimal(t.minutes), 2) \o <<":">>
    \o zero_pad(to_decimal(t.seconds), 2) \o <<".">>
    \o zero_pad(to_decimal(t.milliseconds), 3)

\* "{:02}:{:02}:{:02},{:03}"
Timestamp_fmt(t) ==
    zero_pad(to_decimal(t.hours), 2) \o <<":">>
    \o zero_pad(to_decimal(t.minutes), 2) \o <<":">>
    \o zero_pad(to_decimal(t.seconds), 2) \o <<",">>
    \o zero_pad(to_decimal(t.milliseconds), 3)

\* The derived Ord of Timestamp: hours, minutes, seconds, milliseconds.
Timestamp_cmp(a, b) ==
    IF a.hours # b.hours THEN (IF a.hours < b.hours THEN -1 ELSE 1)
    ELSE IF a.minutes # b.minutes THEN (IF a.minutes < b.minutes THEN -1 ELSE 1)
    ELSE IF a.seconds # b.seconds THEN (IF a.seconds < b.seconds THEN -1 ELSE 1)
    ELSE IF a.milliseconds # b.milliseconds
         THEN (IF a.milliseconds < b.milliseconds THEN -1 ELSE 1)
    ELSE 0

(***************************************************************************)
(* Subtitle: the struct, parse, Display and the derived ordering.          *)
(***************************************************************************)
Subtitle_new(num, start_time, end_time, text) ==
    [num |-> num, start_time |-> start_time, end_time |-> end_time, text |-> text]

\* A shift of a Subtitle with the start time restored when the end time's
\* call fails.
start_then_end_atomic(self, start, end) ==
    IF start.panic # NoPanic
    THEN [s |-> [self EXCEPT !.start_time = start.t], panic |-> start.panic]
    ELSE IF end.panic # NoPanic
    THEN [s |-> self, panic |-> end.panic]
    ELSE [s |-> [self EXCEPT !.start_time = start.t, !.end_time = end.t],
          panic |-> NoPanic]

\* The body shared by the shifts of a Subtitle: the call on self.start_time,
\* then, unless that one panicked, the same call on self.end_time. `start`
\* and `end` are what the call leaves of each timestamp.
start_then_end(self, start, end) ==
    IF start.panic # NoPanic
    THEN [s |-> [self EXCEPT !.start_time = start.t], panic |-> start.panic]
    ELSE [s |-> [self EXCEPT !.start_time = start.t, !.end_time = end.t],
          panic |-> end.panic]

Subtitle_add_hours(self, n) ==
    start_then_end(self, add_hours(Running(self.start_time), n),
                         add_hours(Running(self.end_time), n))

Subtitle_add_minutes(self, n) ==
    start_then_end(self, add_minutes(Running(self.start_time), n),
                         add_minutes(Running(self.end_time), n))

Subtitle_add_seconds(self, n) ==
    start_then_end(self, add_seconds(Running(self.start_time), n),
                         add_seconds(Running(self.end_time), n))

Subtitle_add_milliseconds(self, n) ==
    start_then_end(self, add_milliseconds(Running(self.start_time), n),
                         add_milliseconds(Running(self.end_time), n))

Subtitle_add(self, timestamp_) ==
    start_then_end(self, add(Running(self.start_time), timestamp_),
                         add(Running(self.end_time), timestamp_))

Subtitle_sub(self, timestamp_) ==
    start_then_end(self, sub(Running(self.start_time), timestamp_),
                         sub(Running(self.end_time), timestamp_))

Arrow == <<" ", "-", "-", ">", " ">>

\* Subtitle::parse with the end time parsed from all that follows the arrow.
Subtitle_parse_whole_end(str) ==
    LET iter == splitn(trim_start_matches(str, "\n"), 3, <<"\n">>)
        num == parse_usize(iter[1])
        time == next_ok_or(iter, 2, BadSubtitleStructure(num.value))
        time_iter == split(time.value, Arrow)
        start == Timestamp_parse(time_iter[1])
        end_with_possible_position_info ==
            next_ok_or(time_iter, 2, BadSubtitleStructure(num.value))
        end == Timestamp_parse(end_with_possible_position_info.value)
        text == next_ok_or(iter, 3, BadSubtitleStructure(num.value))
    IN  IF ~num.ok THEN num
        ELSE IF ~time.ok THEN time
        ELSE IF ~start.ok THEN start
        ELSE IF ~end_with_possible_position_info.ok THEN end_with_possible_position_info
        ELSE IF ~end.ok THEN end
        ELSE IF ~text.ok THEN text
        ELSE Ok(Subtitle_new(num.value, start.value, end.value, text.value))

Subtitle_parse(str) ==
    LET iter == splitn(trim_start_matches(str, "\n"), 3, <<"\n">>)
        num == parse_usize(iter[1])
        time == next_ok_or(iter, 2, BadSubtitleStructure(num.value))
        time_iter == split(time.value, Arrow)
        start == Timestamp_parse(time_iter[1])
        end_with_possible_position_info ==
            next_ok_or(time_iter, 2, BadSubtitleStructure(num.value))
        end == Timestamp_parse(split(end_with_possible_position_info.value, <<" ">>)[1])
        text == next_ok_or(iter, 3, BadSubtitleStructure(num.value))
    IN  IF ~num.ok THEN num
        ELSE IF ~time.ok THEN time
        ELSE IF ~start.ok THEN start
        ELSE IF ~end_with_possible_position_info.ok THEN end_with_possible_position_info
        ELSE IF ~end.ok THEN end
        ELSE IF ~text.ok THEN text
        ELSE Ok(Subtitle_new(num.value, start.value, end.value, text.value))

\* "{}\n{} --> {}\n{}"
Subtitle_fmt(self) ==
    usize_to_string(self.num) \o <<"\n">>
    \o Timestamp_fmt(self.start_time) \o Arrow \o Timestamp_fmt(self.end_time)
    \o <<"\n">> \o self.text

\* Ord of String: lexicographic on the code points, a proper prefix first.
String_cmp(a, b) ==
    LET differ == {i \in 1..(IF Len(a) < Len(b) THEN Len(a) ELSE Len(b)) : a[i] # b[i]}
        first == CHOOSE i \in differ : \A j \in differ : i <= j
    IN  IF differ # {}
        THEN (IF CodePoint(a[first]) < CodePoint(b[first]) THEN -1 ELSE 1)
        ELSE IF Len(a) # Len(b) THEN (IF Len(a) < Len(b) THEN -1 ELSE 1)
        ELSE 0

\* An ordering of Subtitle by the ordinal alone.
Subtitle_cmp_num_only(a, b) ==
    IF usize_cmp(a.num, b.num) # 0 THEN usize_cmp(a.num, b.num) ELSE 0

\* An ordering of Subtitle by the ordinal and the two timestamps, not the text.
Subtitle_cmp_without_text(a, b) ==
    IF usize_cmp(a.num, b.num) # 0 THEN usize_cmp(a.num, b.num)
    ELSE IF Timestamp_cmp(a.start_time, b.start_time) # 0
         THEN Timestamp_cmp(a.start_time, b.start_time)
    ELSE Timestamp_cmp(a.end_time, b.end_time)

\* The derived Ord of Subtitle: the fields in declaration order.
Subtitle_cmp(a, b) ==
    IF usize_cmp(a.num, b.num) # 0 THEN usize_cmp(a.num, b.num)
    ELSE IF Timestamp_cmp(a.start_time, b.start_time) # 0
         THEN Timestamp_cmp(a.start_time, b.start_time)
    ELSE IF Timestamp_cmp(a.end_time, b.end_time) # 0
         THEN Timestamp_cmp(a.end_time, b.end_time)
    ELSE String_cmp(a.text, b.text)

(***************************************************************************)
(* Subtitles: the collection.                                              *)
(***************************************************************************)
Subtitles_new == <<>>

push(self, item) == Append(self, item)

\* parse_from_str's loop skipping a chunk that fails to parse.
RECURSIVE parse_chunks_skipping(_, _)
parse_chunks_skipping(chunks, res) ==
    IF chunks = <<>> THEN Ok(res)
    ELSE LET parsed == Subtitle_parse(Head(chunks)) IN
         IF ~parsed.ok THEN parse_chunks_skipping(Tail(chunks), res)
         ELSE parse_chunks_skipping(Tail(chunks), push(res, parsed.value))

\* The loop of parse_from_str over the chunks left by the filter: each is
\* parsed and pushed; `?` returns the first error and drops the collection.
RECURSIVE parse_chunks(_, _)
parse_chunks(chunks, res) ==
    IF chunks = <<>> THEN Ok(res)
    ELSE LET parsed == Subtitle_parse(Head(chunks)) IN
         IF ~parsed.ok THEN parsed
         ELSE parse_chunks(Tail(chunks), push(res, parsed.value))

\* The normalization without the removal of carriage returns.
normalize_keep_cr(str) == trim_start_matches(str, BOM)

\* The first lines of parse_from_str: leading byte-order marks trimmed, every
\* carriage return removed.
normalize(str) == remove_char(trim_start_matches(str, BOM), "\r")

parse_from_str(str) ==
    parse_chunks(
        SelectSeq(split_terminator(normalize(str), <<"\n", "\n">>),
                  contains_alphanumeric),
        Subtitles_new)

\* The loop of Display for Subtitles over self[..len - 1].
RECURSIVE fmt_all_but_last(_)
fmt_all_but_last(front) ==
    IF front = <<>> THEN <<>>
    ELSE Subtitle_fmt(Head(front)) \o <<"\n", "\n">> \o fmt_all_but_last(Tail(front))

\* Display for Subtitles with the separator after every member.
Subtitles_fmt_trailing(self) == fmt_all_but_last(self)

Subtitles_fmt(self) ==
    IF self # <<>>
    THEN fmt_all_but_last(SubSeq(self, 1, Len(self) - 1)) \o Subtitle_fmt(self[Len(self)])
    ELSE <<>>

\* Vec::sort: a stable sort by the derived Ord. Stable insertion: each element
\* goes after every element already placed that is not greater than it.
RECURSIVE insert_sorted(_, _)
insert_sorted(sorted, item) ==
    IF sorted = <<>> THEN <<item>>
    ELSE IF Subtitle_cmp(item, Head(sorted)) < 0 THEN <<item>> \o sorted
    ELSE <<Head(sorted)>> \o insert_sorted(Tail(sorted), item)

RECURSIVE sort(_)
sort(self) ==
    IF self = <<>> THEN <<>>
    ELSE insert_sorted(sort(SubSeq(self, 1, Len(self) - 1)), self[Len(self)])

(***************************************************************************)
(* The program of tests::timestamp_to_str and tests::timestamp_parsing: a  *)
(* timestamp is rendered with to_string() and the text is parsed back.     *)
(***************************************************************************)
\* Timestamps to render: one- to three-digit hours, fields at both ends of
\* their ranges and at every width the padding distinguishes.
RenderTimestamps ==
    { Timestamp_new(h, m, sec, ms) :
        h \in {0, 7, 10, 99, 100, 255}, m \in {0, 9, 59}, sec \in {0, 59},
        ms \in {0, 7, 45, 999} }

\* Field texts of a timecode to parse: decimal numbers that fit the field,
\* a number too large for it, text that is no number, and the empty text.
FieldTexts == { <<"7">>, <<"0", "5">>, <<"2", "5", "6">>, <<"x">>, <<>> }

MillisecondsTexts ==
    { <<"4", "5">>, <<"6", "5", "5", "3", "5">>, <<"6", "5", "5", "3", "6">>,
      <<"x">>, <<>> }

\* Timecode texts to parse, with one, two, three (no comma) and four fields.
TimecodeTexts ==
    FieldTexts
    \cup { h \o <<":">> \o m : h \in FieldTexts, m \in FieldTexts }
    \cup { h \o <<":">> \o m \o <<":">> \o sec :
             h \in FieldTexts, m \in FieldTexts, sec \in FieldTexts }
    \cup { h \o <<":">> \o m \o <<":">> \o sec \o <<",">> \o ms :
             h \in FieldTexts, m \in FieldTexts, sec \in FieldTexts,
             ms \in MillisecondsTexts }

TimecodeInit ==
    /\ subtitle = Idle
    /\ overflow_checks = TRUE
    /\ panic = NoPanic
    /\ call = [op |-> "new"]
    /\ steps = 0
    /\ output = Idle /\ subs = Idle /\ rendered = Idle
    /\ \/ timestamp \in RenderTimestamps /\ input = Idle /\ pc = "timestamp"
       \/ timestamp = Idle /\ input \in TimecodeTexts /\ pc = "text"

TimestampToString ==
    /\ pc = "timestamp"
    /\ rendered' = Timestamp_fmt(timestamp)
    /\ call' = [op |-> "to_string"]
    /\ pc' = "timestamp_rendered"
    /\ UNCHANGED <<subtitle, overflow_checks, timestamp, panic, steps, input, output, subs>>

TimestampParse ==
    /\ pc = "timestamp_rendered"
    /\ input' = rendered
    /\ output' = Timestamp_parse(rendered)
    /\ call' = [op |-> "parse"]
    /\ pc' = "timestamp_parsed"
    /\ UNCHANGED <<subtitle, overflow_checks, timestamp, panic, steps, subs, rendered>>

\* Timestamp::parse on a text that no to_string() call produced.
TimestampParseText ==
    /\ pc = "text"
    /\ output' = Timestamp_parse(input)
    /\ call' = [op |-> "parse"]
    /\ pc' = "text_parsed"
    /\ UNCHANGED <<subtitle, overflow_checks, timestamp, panic, steps, input, subs, rendered>>

TimecodeNext == TimestampToString \/ TimestampParse \/ TimestampParseText

TimecodeSpec == TimecodeInit /\ [][TimecodeNext]_vars

\* C4: the rendered text of an in-range timestamp has the shape HH:MM:SS,mmm
\* (widths 2/2/2/3, hours wider above 99), and parsing it succeeds and gives
\* the timestamp back.
C4_TimestampRoundTrip ==
    /\ pc \in {"timestamp_rendered", "timestamp_parsed"} =>
          /\ Len(rendered) = (IF timestamp.hours > 99 THEN 13 ELSE 12)
          /\ rendered[Len(rendered) - 3] = ","
          /\ rendered[Len(rendered) - 6] = ":"
          /\ rendered[Len(rendered) - 9] = ":"
    /\ pc = "timestamp_parsed" => output = Ok(timestamp)

\* C4 witness: a timestamp with three-digit hours and a padded milliseconds
\* field was rendered and parsed back.
C4_Witness ==
    /\ pc = "timestamp_parsed"
    /\ timestamp.hours > 99 /\ timestamp.milliseconds = 7 /\ timestamp.minutes = 59
    /\ output.ok

\* The fields of a timecode text: the colon-separated fields, the third
\* being everything after the second colon, split at its first comma.
ColonFields(s) == splitn(s, 3, <<":">>)

FieldMissing(s) ==
    \/ Len(ColonFields(s)) < 3
    \/ Len(splitn(ColonFields(s)[3], 2, <<",">>)) < 2

FourFields(s) ==
    SubSeq(ColonFields(s), 1, 2) \o splitn(ColonFields(s)[3], 2, <<",">>)

\* A decimal number that fits the width of field i (8 bits, milliseconds 16).
FieldFits(s, i) ==
    /\ s # <<>>
    /\ \A k \in DOMAIN s : IsDigit(s[k])
    /\ Len(trim_start_matches(s, "0")) <= 5
    /\ DecimalValue(trim_start_matches(s, "0")) <= (IF i = 4 THEN U16MAX ELSE U8MAX)

\* C11: Timestamp::parse fails with MalformedTimestamp on every text with a
\* missing field, and fails with an integer-parse error only on texts whose
\* four fields are all present, one of them not a number fitting its width.
C11_MissingFieldIsMalformed ==
    pc = "text_parsed" =>
        /\ FieldMissing(input) => output = Err(MalformedTimestamp)
        /\ output = Err(ParseIntError) =>
              /\ ~FieldMissing(input)
              /\ \E i \in 1..4 : ~FieldFits(FourFields(input)[i], i)

(***************************************************************************)
(* The program of tests::subtitle_parsing: Subtitle::parse on one entry.   *)
(***************************************************************************)
\* The pieces an entry text is assembled from, each with the value it
\* denotes.
Ordinals ==
    { [str |-> <<"0">>, value |-> usize(0)],
      [str |-> <<"1">>, value |-> usize(1)],
      [str |-> <<"1", "2">>, value |-> usize(12)],
      [str |-> <<"0", "0", "7">>, value |-> usize(7)],
      [str |-> <<"+", "1", "0", "0", "0", "0", "0", "0", "0", "0", "0">>,
       value |-> usize(1000000000)],
      [str |-> <<"4", "2", "9", "4", "9", "6", "7", "2", "9", "6">>,
       value |-> <<"4", "2", "9", "4", "9", "6", "7", "2", "9", "6">>],
      [str |-> <<"1", "8", "4", "4", "6", "7", "4", "4", "0", "7", "3", "7", "0", "9", "5", "5", "1", "6", "1", "5">>,
       value |-> USIZE_MAX] }

Timecodes ==
    { [str |-> <<"0", "0", ":", "0", "0", ":", "0", "7", ",", "0", "0", "1">>,
       value |-> Timestamp_new(0, 0, 7, 1)],
      [str |-> <<"1", ":", "2", ":", "3", ",", "4">>, value |-> Timestamp_new(1, 2, 3, 4)],
      [str |-> <<"1", "0", "0", ":", "9", "9", ":", "0", "0", ",", "6", "5", "5", "3", "5">>,
       value |-> Timestamp_new(100, 99, 0, 65535)] }

\* Trailing metadata of the time-range line: none, or a space and any text
\* without a line break.
Metas ==
    { <<>>,
      <<" ">>,
      <<" ", "p", "o", "s", "i", "t", "i", "o", "n", ":", "5", "0", ",", "0", "0", "%">>,
      <<" ", "X", " ", "-", "-", ">", " ", "Y">>,
      <<" ", "0", ":", "0", ":", "9", ",", "9", " ", "b">> }

Texts ==
    { <<>>,
      <<"H", "i">>,
      <<"H", "i", "\n", "Y", "o">>,
      <<"H", "i", "\n", "\n", "Y", "o", "\n">>,
      <<"a", " ", "-", "-", ">", " ", "b">>,
      <<"\n", "7">> }

LeadingBreaks == { <<>>, <<"\n">>, <<"\n", "\n">> }

EntryText(parts) ==
    parts.lead \o parts.num.str \o <<"\n">>
    \o parts.start.str \o Arrow \o parts.end.str \o parts.meta
    \o <<"\n">> \o parts.text

\* The parts an entry text can lack.
Parts == { "ordinal", "separator", "start", "end", "range", "text" }

\* An entry text without one of its parts: without the ordinal line, with a
\* space in place of " --> ", without the start or the end timecode, with
\* the time-range line cut after the start timecode, or ending with the
\* time-range line.
BrokenEntryText(parts) ==
    LET ordinal == parts.num.str \o <<"\n">>
        range == parts.start.str \o Arrow \o parts.end.str \o parts.meta
        text == <<"\n">> \o parts.text
    IN  parts.lead \o
        CASE parts.missing = "ordinal" -> range \o text
          [] parts.missing = "separator" ->
                ordinal \o parts.start.str \o <<" ">> \o parts.end.str
                \o parts.meta \o text
          [] parts.missing = "start" ->
                ordinal \o Arrow \o parts.end.str \o parts.meta \o text
          [] parts.missing = "end" ->
                ordinal \o parts.start.str \o Arrow \o parts.meta \o text
          [] parts.missing = "range" -> ordinal \o parts.start.str \o text
          [] parts.missing = "text" -> ordinal \o range

EntryInit ==
    /\ subtitle = Idle
    /\ overflow_checks = TRUE
    /\ timestamp = Idle
    /\ panic = NoPanic
    /\ steps = 0
    /\ output = Idle /\ subs = Idle /\ rendered = Idle
    /\ \/ /\ call \in [lead : LeadingBreaks, num : Ordinals, start : Timecodes,
                       end : Timecodes, meta : Metas, text : Texts]
          /\ input = EntryText(call)
          /\ pc = "entry"
       \/ /\ call \in [lead : LeadingBreaks, num : Ordinals, start : Timecodes,
                       end : Timecodes, meta : Metas, text : Texts,
                       missing : Parts]
          /\ input = BrokenEntryText(call)
          /\ pc = "broken_entry"

SubtitleParse ==
    /\ pc = "entry"
    /\ output' = Subtitle_parse(input)
    /\ pc' = "entry_parsed"
    /\ UNCHANGED <<subtitle, overflow_checks, timestamp, panic, call, steps, input, subs, rendered>>

\* Subtitle::parse on an entry text that lacks a part; the message of the
\* error is then written with Display.
SubtitleParseBroken ==
    /\ pc = "broken_entry"
    /\ output' = Subtitle_parse(input)
    /\ rendered' = IF output'.ok \/ output'.err.kind # "BadSubtitleStructure"
                   THEN Idle ELSE number(output'.err.num)
    /\ pc' = "broken_entry_parsed"
    /\ UNCHANGED <<subtitle, overflow_checks, timestamp, panic, call, steps, input, subs>>

EntryNext == SubtitleParse \/ SubtitleParseBroken

EntrySpec == EntryInit /\ [][EntryNext]_vars

\* C6: on `N\nS --> E\nTEXT` and `N\nS --> E META\nTEXT`, after optional
\* leading line breaks, Subtitle::parse returns the ordinal N, the timestamps
\* of S and E and TEXT verbatim; nothing of META is in the result.
C6_EntryParsing ==
    pc = "entry_parsed" =>
        output = Ok(Subtitle_new(call.num.value, call.start.value, call.end.value,
                                 call.text))

\* C6 witness: an entry with position metadata and a two-line text was parsed.
C6_Witness ==
    /\ pc = "entry_parsed"
    /\ output.ok
    /\ Len(call.meta) > 1
    /\ call.lead # <<>>
    /\ contains(call.text, "\n")

\* C12: Subtitle::parse fails with BadSubtitleStructure on every entry text
\* that lacks the ordinal, the separator, a timecode or the text; the error
\* carries the ordinal when the ordinal line was parsed, and its message
\* says "unknown" only when it was not.
C12_StructuralErrors ==
    pc = "broken_entry_parsed" =>
        /\ ~output.ok
        /\ output.err.kind = "BadSubtitleStructure"
        /\ call.missing # "ordinal" =>
              /\ output.err.num = call.num.value
              /\ rendered = call.num.value
        /\ rendered = <<"u", "n", "k", "n", "o", "w", "n">> => call.missing = "ordinal"

(***************************************************************************)
(* The program of tests::subtitles_from_str_parsing, tests::sort_subtitles *)
(* and the Subtitles doc example: a collection is parsed from a document   *)
(* or built with push, then sorted or rendered, and the rendered text is   *)
(* parsed again.                                                           *)
(***************************************************************************)
MaxChunks == 2
MaxSubs == 3

\* The chunks documents are assembled from: well-formed entries (with
\* position metadata, with a multi-line text, with an empty text, with
\* out-of-range fields), a chunk without any alphanumeric character, and
\* four kinds of malformed entry, and an entry with CRLF line endings. Three
\* ordinals are beyond 32 bits: 2^32, usize::MAX and usize::MAX + 1.
Chunks ==
    { <<"1", "\n", "0", "0", ":", "0", "0", ":", "0", "0", ",", "0", "0", "0", " ", "-", "-", ">", " ", "0", "0", ":", "0", "0", ":", "0", "1", ",", "0", "0", "0", "\n", "H", "i">>,
      <<"2", "\n", "0", ":", "0", ":", "1", ",", "5", " ", "-", "-", ">", " ", "0", ":", "0", ":", "2", ",", "5", " ", "X", ":", "1", "\n", "Y", "o", "\n", "G", "o">>,
      <<"2", "\n", "0", ":", "0", ":", "1", ",", "0", " ", "-", "-", ">", " ", "0", ":", "9", "9", ":", "2", ",", "5", "\n">>,
      <<"-", "-">>,
      <<"x", "\n", "0", ":", "0", ":", "1", ",", "0", " ", "-", "-", ">", " ", "0", ":", "0", ":", "2", ",", "0", "\n", "N", "o">>,
      <<"4", "2", "9", "4", "9", "6", "7", "2", "9", "6", "\n", "0", ":", "0", ":", "1", ",", "0", "\n", "Z", "z">>,
      <<"1", "8", "4", "4", "6", "7", "4", "4", "0", "7", "3", "7", "0", "9", "5", "5", "1", "6", "1", "6", "\n", "0", ":", "0", ":", "1", ",", "0", " ", "-", "-", ">", " ", "0", ":", "0", ":", "2", ",", "0", "\n", "N", "o">>,
      <<"4", "\n", "0", ":", "0", " ", "-", "-", ">", " ", "0", ":", "0", ":", "1", ",", "0", "\n", "A">>,
      <<"1", "8", "4", "4", "6", "7", "4", "4", "0", "7", "3", "7", "0", "9", "5", "5", "1", "6", "1", "5", "\r", "\n", "0", ":", "0", ":", "3", ",", "0", " ", "-", "-", ">", " ", "0", ":", "0", ":", "4", ",", "0", "\r", "\n", "O", "k">> }

Separators == { <<"\n", "\n">>, <<"\n", "\n", "\n">>, <<"\r", "\n", "\r", "\n">> }

Leads == { <<>>, <<BOM>>, <<"\n">> }

Tails == { <<>>, <<"\n">>, <<"\n", "\n">> }

\* The bodies of at most n chunks, consecutive chunks joined by a separator.
RECURSIVE Bodies(_)
Bodies(n) ==
    IF n = 0 THEN { <<>> }
    ELSE IF n = 1 THEN { <<>> } \cup Chunks
    ELSE LET shorter == Bodies(n - 1) IN
         shorter \cup { b \o sep \o c : b \in shorter \ { <<>> }, sep \in Separators,
                                         c \in Chunks }

Docs == { lead \o body \o tail : lead \in Leads, body \in Bodies(MaxChunks), tail \in Tails }

\* The subtitles pushed onto a collection built by hand: two share an ordinal
\* and differ in start time, two differ only in end time, two differ only in
\* text, one has a text with a blank line.
Entries ==
    { Subtitle_new(usize(1), Timestamp_new(0, 0, 0, 0),
                   Timestamp_new(0, 0, 1, 0), <<"H", "i">>),
      Subtitle_new(usize(2), Timestamp_new(0, 0, 2, 500),
                   Timestamp_new(0, 0, 5, 0), <<"Y", "o">>),
      Subtitle_new(usize(2), Timestamp_new(0, 0, 3, 500),
                   Timestamp_new(0, 0, 6, 0), <<"Y", "o">>),
      Subtitle_new(usize(2), Timestamp_new(0, 0, 2, 500),
                   Timestamp_new(0, 0, 5, 0), <<"A", "b">>),
      Subtitle_new(usize(2), Timestamp_new(0, 0, 2, 500),
                   Timestamp_new(0, 0, 4, 0), <<"Y", "o">>),
      Subtitle_new(usize(10), Timestamp_new(100, 0, 0, 0),
                   Timestamp_new(100, 0, 0, 7), <<"a", "\n", "\n", "b">>) }

\* The same text as a Windows editor saves it: a byte-order mark first, every
\* line feed preceded by a carriage return.
RECURSIVE Join(_, _)
Join(strs, sep) ==
    IF strs = <<>> THEN <<>>
    ELSE IF Len(strs) = 1 THEN strs[1]
    ELSE strs[1] \o sep \o Join(Tail(strs), sep)

ToWindows(str) == <<BOM>> \o Join(split(str, <<"\n">>), <<"\r", "\n">>)

CollInit ==
    /\ subtitle = Idle
    /\ overflow_checks = TRUE
    /\ timestamp = Idle
    /\ panic = NoPanic
    /\ call = [op |-> "new"]
    /\ steps = 0
    /\ \/ pc = "doc" /\ input \in Docs
       \/ pc = "build" /\ input = Idle
    /\ output = Idle
    /\ subs = Subtitles_new
    /\ rendered = Idle

\* Subtitles::parse_from_str(input): the collection is bound only on Ok.
ParseFromStr ==
    /\ pc = "doc"
    /\ output' = parse_from_str(input)
    /\ subs' = IF output'.ok THEN output'.value ELSE subs
    /\ call' = [op |-> "parse_from_str"]
    /\ pc' = "parsed"
    /\ UNCHANGED <<subtitle, overflow_checks, timestamp, panic, steps, input, rendered>>

\* The document is parsed a second time in its Windows form.
ParseWindows ==
    /\ pc = "parsed"
    /\ ~contains(input, "\r")
    /\ IF input = <<>> THEN TRUE ELSE Head(input) # BOM
    /\ output' = parse_from_str(ToWindows(input))
    /\ call' = [op |-> "parse_from_str", first |-> output]
    /\ pc' = "parsed_windows"
    /\ UNCHANGED <<subtitle, overflow_checks, timestamp, panic, steps, input, subs, rendered>>

Push ==
    /\ pc = "build"
    /\ Len(subs) < MaxSubs
    /\ \E item \in Entries : subs' = push(subs, item)
    /\ call' = [op |-> "push"]
    /\ UNCHANGED <<subtitle, overflow_checks, timestamp, panic, steps, input, output, rendered, pc>>

Sort ==
    /\ pc = "build" \/ (pc = "parsed" /\ output.ok)
    /\ subs' = sort(subs)
    /\ call' = [op |-> "sort", pre |-> subs]
    /\ pc' = "sorted"
    /\ UNCHANGED <<subtitle, overflow_checks, timestamp, panic, steps, input, output, rendered>>

SubtitlesToString ==
    /\ pc = "build" \/ (pc = "parsed" /\ output.ok)
    /\ rendered' = Subtitles_fmt(subs)
    /\ call' = [op |-> "to_string", from |-> pc]
    /\ pc' = "rendered"
    /\ UNCHANGED <<subtitle, overflow_checks, timestamp, panic, steps, input, output, subs>>

\* Subtitles::parse_from_str(rendered); subs still holds the collection that
\* was rendered.
Reparse ==
    /\ pc = "rendered"
    /\ output' = parse_from_str(rendered)
    /\ call' = [op |-> "parse_from_str", from |-> call.from]
    /\ pc' = "reparsed"
    /\ UNCHANGED <<subtitle, overflow_checks, timestamp, panic, steps, input, subs, rendered>>

CollNext == ParseFromStr \/ ParseWindows \/ Push \/ Sort \/ SubtitlesToString \/ Reparse

CollSpec == CollInit /\ [][CollNext]_vars

\* What the fail-fast policy prescribes for a document: the chunks between
\* blank-line separators that hold an alphanumeric character, each parsed;
\* all of them in order, or the error of the first that fails.
FailFastOutcome(str) ==
    LET chunks == SelectSeq(split(normalize(str), <<"\n", "\n">>), contains_alphanumeric)
        results == [i \in 1..Len(chunks) |-> Subtitle_parse(chunks[i])]
        failing == {i \in 1..Len(chunks) : ~results[i].ok}
    IN  IF failing = {}
        THEN Ok([i \in 1..Len(chunks) |-> results[i].value])
        ELSE Err(results[CHOOSE i \in failing : \A j \in failing : i <= j].err)

\* C7: parse_from_str returns one entry per chunk that holds an
\* alphanumeric character, in input order, or the error of the first such
\* chunk that fails and no collection; empty input gives the empty collection.
C7_FailFastParse ==
    pc = "parsed" =>
        /\ output = FailFastOutcome(input)
        /\ ~output.ok => subs = Subtitles_new
        /\ input = <<>> => output = Ok(Subtitles_new)

\* C7 witness: the first chunk of a document parsed and the second failed.
C7_Witness ==
    /\ pc = "parsed"
    /\ ~output.ok
    /\ LET chunks == SelectSeq(split(normalize(input), <<"\n", "\n">>),
                               contains_alphanumeric)
       IN  /\ Len(chunks) = 2
           /\ Subtitle_parse(chunks[1]).ok
           /\ output.err.kind = "BadSubtitleStructure" /\ output.err.num = <<"4", "2", "9", "4", "9", "6", "7", "2", "9", "6">>

\* C5: a collection parsed from a document, rendered and parsed again, is
\* the same collection.
C5_CollectionRoundTrip ==
    (pc = "reparsed" /\ call.from = "parsed") =>
        /\ output.ok
        /\ output.value = subs

\* C5 witness: the document had three line breaks between two entries, one
\* with position metadata, and the last text ends in a line break.
C5_Witness ==
    /\ pc = "reparsed" /\ call.from = "parsed"
    /\ Len(subs) = 2
    /\ Find(input, <<"\n", "\n", "\n">>) # 0
    /\ Find(input, <<" ", "X", ":", "1">>) # 0
    /\ subs[2].text # <<>> /\ subs[2].text[Len(subs[2].text)] = "\n"

\* The number of members of a collection equal to a subtitle.
Count(self, item) == Cardinality({i \in DOMAIN self : self[i] = item})

\* Numeric order of two ordinals, read off their decimal digits: the one
\* with fewer digits, or of two with as many digits the one with the smaller
\* digit where they first differ.
NumLess(a, b) ==
    \/ Len(a) < Len(b)
    \/ /\ Len(a) = Len(b)
       /\ \E k \in DOMAIN a :
             /\ \A j \in 1..(k - 1) : a[j] = b[j]
             /\ CodePoint(a[k]) < CodePoint(b[k])

NumLeq(a, b) == a = b \/ NumLess(a, b)

\* Timestamp order: hours, then minutes, then seconds, then milliseconds.
StartLeq(a, b) ==
    \/ a.hours < b.hours
    \/ a.hours = b.hours /\ a.minutes < b.minutes
    \/ a.hours = b.hours /\ a.minutes = b.minutes /\ a.seconds < b.seconds
    \/ /\ a.hours = b.hours /\ a.minutes = b.minutes /\ a.seconds = b.seconds
       /\ a.milliseconds <= b.milliseconds

\* C8: sort() keeps the entries (same length, same multiset) and leaves them
\* in non-decreasing order of ordinal, entries of one ordinal in
\* non-decreasing order of start time.
C8_Sorting ==
    pc = "sorted" =>
        /\ Len(subs) = Len(call.pre)
        /\ \A i \in DOMAIN call.pre : Count(subs, call.pre[i]) = Count(call.pre, call.pre[i])
        /\ \A i, j \in DOMAIN subs :
              i < j => /\ NumLeq(subs[i].num, subs[j].num)
                       /\ subs[i].num = subs[j].num =>
                              StartLeq(subs[i].start_time, subs[j].start_time)

\* C8 witness: a collection of three entries in which two entries of one
\* ordinal stood in decreasing order of start time was sorted.
C8_Witness ==
    /\ pc = "sorted"
    /\ Len(subs) = 3
    /\ \E i, j \in DOMAIN call.pre :
          /\ i < j
          /\ call.pre[i].num = call.pre[j].num
          /\ ~StartLeq(call.pre[i].start_time, call.pre[j].start_time)
    /\ \E i \in DOMAIN call.pre : NumLess(call.pre[i].num, call.pre[3].num)

\* The three keys of the ordering as the specification lists them.
SameKeys(a, b) ==
    a.num = b.num /\ a.start_time = b.start_time /\ a.end_time = b.end_time

\* The entries of a collection that have the keys of e, in collection order.
WithKeysOf(self, e) == SelectSeq(self, LAMBDA x : SameKeys(x, e))

\* String order: a prefix first, otherwise the smaller code point at the
\* first difference.
TextLeq(a, b) ==
    \/ Len(a) <= Len(b) /\ \A k \in DOMAIN a : a[k] = b[k]
    \/ \E k \in DOMAIN a \cap DOMAIN b :
          /\ \A j \in 1..(k - 1) : a[j] = b[j]
          /\ CodePoint(a[k]) < CodePoint(b[k])

\* C14 as stated: subtitles that agree on ordinal, start time and end time
\* compare as equal whatever their text, and sort() leaves them in their
\* insertion order.
C14_TextIgnored ==
    pc = "sorted" =>
        \A i \in DOMAIN call.pre :
            /\ WithKeysOf(subs, call.pre[i]) = WithKeysOf(call.pre, call.pre[i])
            /\ \A j \in DOMAIN call.pre :
                  SameKeys(call.pre[i], call.pre[j]) =>
                      Subtitle_cmp(call.pre[i], call.pre[j]) = 0

\* C14, amended: the ordering is by ordinal, then start time, then end time,
\* then text; only subtitles equal in all four compare as equal, and sort()
\* leaves entries that agree on the first three keys in the order of their
\* texts.
C14_TextBreaksTies ==
    pc = "sorted" =>
        /\ Len(subs) = Len(call.pre)
        /\ \A i \in DOMAIN call.pre : Count(subs, call.pre[i]) = Count(call.pre, call.pre[i])
        /\ \A i, j \in DOMAIN subs :
              i < j =>
                /\ NumLeq(subs[i].num, subs[j].num)
                /\ subs[i].num = subs[j].num =>
                      StartLeq(subs[i].start_time, subs[j].start_time)
                /\ (subs[i].num = subs[j].num
                    /\ subs[i].start_time = subs[j].start_time) =>
                      StartLeq(subs[i].end_time, subs[j].end_time)
                /\ SameKeys(subs[i], subs[j]) => TextLeq(subs[i].text, subs[j].text)
        /\ \A i, j \in DOMAIN call.pre :
              Subtitle_cmp(call.pre[i], call.pre[j]) = 0 <=> call.pre[i] = call.pre[j]

\* C14 witness: a collection was sorted in which an entry stood before one
\* with the same three keys and a smaller text, and sort() exchanged them.
C14_Witness ==
    /\ pc = "sorted"
    /\ \E i, j \in DOMAIN call.pre :
          /\ i < j
          /\ SameKeys(call.pre[i], call.pre[j])
          /\ ~TextLeq(call.pre[i].text, call.pre[j].text)
    /\ \E i, j \in DOMAIN subs :
          /\ i < j
          /\ SameKeys(subs[i], subs[j])
          /\ subs[i].text # subs[j].text

\* C9: to_string() is the members' renderings in collection order joined by
\* "\n\n", nothing before or after; one member renders as itself, the empty
\* collection as the empty string.
C9_CollectionRendering ==
    pc = "rendered" =>
        /\ rendered = Join([i \in DOMAIN subs |-> Subtitle_fmt(subs[i])], <<"\n", "\n">>)
        /\ Len(subs) = 1 => rendered = Subtitle_fmt(subs[1])
        /\ subs = <<>> => rendered = <<>>

\* C9 witness: a collection of three members, not in ordinal order, was
\* rendered.
C9_Witness ==
    /\ pc = "rendered"
    /\ Len(subs) = 3
    /\ NumLess(subs[2].num, subs[1].num)

\* C10: a document without carriage returns and without a leading byte-order
\* mark parses to the same outcome with a byte-order mark prepended and CRLF
\* line endings: the same collection, or a failure where it failed.
C10_BomCrlfEquivalence ==
    pc = "parsed_windows" =>
        /\ output.ok = call.first.ok
        /\ output.ok => output.value = call.first.value

\* C10 witness: a document of two entries parsed in both forms.
C10_Witness ==
    /\ pc = "parsed_windows"
    /\ output.ok
    /\ Len(output.value) = 2

(***************************************************************************)
(* The program of tests::add_time_subtitle: a Subtitle is shifted by a     *)
(* sequence of calls. A panic ends the program, and leaves the subtitle as *)
(* the call had made it by then.                                           *)
(***************************************************************************)
\* The subtitles the program starts from: start and end times in range, in
\* either order (no start <= end is enforced).
EndTimestamps ==
    { Timestamp_new(0, 0, 2, 0),       Timestamp_new(1, 3, 6, 200),
      Timestamp_new(254, 59, 59, 999), Timestamp_new(255, 59, 59, 999) }

ShiftSubtitles ==
    { Subtitle_new(usize(1), start, end, <<"H", "i">>) :
        start \in StartTimestamps, end \in EndTimestamps }

ShiftInit ==
    /\ overflow_checks \in BOOLEAN
    /\ subtitle \in ShiftSubtitles
    /\ panic = NoPanic
    /\ call = [op |-> "new", arg |-> 0, pre |-> subtitle]
    /\ steps = 0
    /\ timestamp = Idle
    /\ input = Idle /\ output = Idle /\ subs = Idle /\ rendered = Idle
    /\ pc = "shift"

\* One call on the subtitle: `after` is the state the call leaves.
ShiftCall(op, arg, after) ==
    /\ pc = "shift"
    /\ panic = NoPanic
    /\ steps < MaxSteps
    /\ subtitle' = after.s
    /\ panic' = after.panic
    /\ call' = [op |-> op, arg |-> arg, pre |-> subtitle]
    /\ steps' = steps + 1
    /\ UNCHANGED <<overflow_checks, timestamp, input, output, subs, rendered, pc>>

ShiftHours == \E n \in Deltas : ShiftCall("add_hours", n, Subtitle_add_hours(subtitle, n))

ShiftMinutes ==
    \E n \in Deltas : ShiftCall("add_minutes", n, Subtitle_add_minutes(subtitle, n))

ShiftSeconds ==
    \E n \in Deltas : ShiftCall("add_seconds", n, Subtitle_add_seconds(subtitle, n))

ShiftMilliseconds ==
    \E n \in Deltas :
        ShiftCall("add_milliseconds", n, Subtitle_add_milliseconds(subtitle, n))

ShiftAdd == \E d \in DeltaTimestamps : ShiftCall("add", d, Subtitle_add(subtitle, d))

ShiftSub == \E d \in DeltaTimestamps : ShiftCall("sub", d, Subtitle_sub(subtitle, d))

ShiftNext ==
    ShiftHours \/ ShiftMinutes \/ ShiftSeconds \/ ShiftMilliseconds \/ ShiftAdd \/ ShiftSub

ShiftSpec == ShiftInit /\ [][ShiftNext]_vars

\* What one call of the Timestamp operation `op` with argument `arg` leaves
\* of the timestamp t.
Call(op, arg, t) ==
    CASE op = "add_hours" -> add_hours(Running(t), arg)
      [] op = "add_minutes" -> add_minutes(Running(t), arg)
      [] op = "add_seconds" -> add_seconds(Running(t), arg)
      [] op = "add_milliseconds" -> add_milliseconds(Running(t), arg)
      [] op = "add" -> add(Running(t), arg)
      [] op = "sub" -> sub(Running(t), arg)

\* The field calls an operation is made of, in the order it makes them.
FieldCalls(op, arg) ==
    CASE op = "add" ->
            << <<"add_hours", arg.hours>>, <<"add_minutes", arg.minutes>>,
               <<"add_seconds", arg.seconds>>, <<"add_milliseconds", arg.milliseconds>> >>
      [] op = "sub" ->
            << <<"add_milliseconds", -arg.milliseconds>>, <<"add_seconds", -arg.seconds>>,
               <<"add_minutes", -arg.minutes>>, <<"add_hours", -arg.hours>> >>
      [] OTHER -> << <<op, arg>> >>

\* t with the field calls before the first failing one applied, and nothing
\* of the failing one or of those after it.
RECURSIVE AppliedBefore(_, _)
AppliedBefore(t, calls) ==
    IF calls = <<>> THEN t
    ELSE LET first == Call(Head(calls)[1], Head(calls)[2], t)
         IN  IF first.panic # NoPanic THEN t
             ELSE AppliedBefore(first.t, Tail(calls))

\* The exact shift of an operation, in milliseconds.
ShiftBy(op, arg) ==
    IF op \in UnitOps THEN arg * Unit(op)
    ELSE IF op = "add" THEN Total(arg) ELSE -Total(arg)

ShiftFailed == pc = "shift" /\ steps > 0 /\ panic # NoPanic

StartFailed == Call(call.op, call.arg, call.pre.start_time).panic # NoPanic

\* C13 as stated: when a shift of a Subtitle fails on one of its timestamps,
\* the other one is left shifted by the delta; and a failed add or sub leaves
\* the fields applied before the failing one applied.
C13_OtherAlreadyShifted ==
    ShiftFailed =>
        /\ IF StartFailed
           THEN /\ subtitle.start_time =
                      AppliedBefore(call.pre.start_time, FieldCalls(call.op, call.arg))
                /\ Call(call.op, call.arg, call.pre.end_time).panic = NoPanic =>
                      Total(subtitle.end_time) =
                          Total(call.pre.end_time) + ShiftBy(call.op, call.arg)
           ELSE /\ subtitle.end_time =
                      AppliedBefore(call.pre.end_time, FieldCalls(call.op, call.arg))
                /\ Total(subtitle.start_time) =
                      Total(call.pre.start_time) + ShiftBy(call.op, call.arg)
        /\ subtitle.num = call.pre.num /\ subtitle.text = call.pre.text

\* C13, amended: when the call on end_time fails, start_time is left shifted
\* by the delta; when the call on start_time fails, end_time is left as it
\* was; and the timestamp whose add or sub failed keeps the fields applied
\* before the failing one, and nothing of the failing one.
C13_NoRollback ==
    ShiftFailed =>
        /\ IF StartFailed
           THEN /\ subtitle.start_time =
                      AppliedBefore(call.pre.start_time, FieldCalls(call.op, call.arg))
                /\ subtitle.end_time = call.pre.end_time
           ELSE /\ subtitle.end_time =
                      AppliedBefore(call.pre.end_time, FieldCalls(call.op, call.arg))
                /\ Total(subtitle.start_time) =
                      Total(call.pre.start_time) + ShiftBy(call.op, call.arg)
        /\ subtitle.num = call.pre.num /\ subtitle.text = call.pre.text

\* C13 witness: an add failed on end_time at the minutes, after the hours of
\* end_time and the whole of start_time had been shifted.
C13_Witness ==
    /\ ShiftFailed
    /\ call.op = "add"
    /\ ~StartFailed
    /\ subtitle.start_time # call.pre.start_time
    /\ subtitle.end_time.hours # call.pre.end_time.hours

(***************************************************************************)
(* The program of a caller that hands new, set or parse field values of    *)
(* any size the field types hold (none of the three checks them) and then  *)
(* makes one shifting call on the timestamp.                               *)
(***************************************************************************)
\* Field values in and out of range, up to the largest the types hold.
RawTimestamps ==
    { Timestamp_new(h, m, sec, ms) :
        h \in {0, 1, 255}, m \in {0, 59, 60, 99, 255}, sec \in {0, 61, 255},
        ms \in {0, 999, 1000, 65535} }

RawInit ==
    /\ overflow_checks \in BOOLEAN
    /\ panic = NoPanic
    /\ steps = 0
    /\ subs = Idle /\ rendered = Idle /\ subtitle = Idle
    /\ pc = "raw"
    /\ \E raw \in RawTimestamps :
          \/ /\ timestamp = raw
             /\ call = [op |-> "new", arg |-> 0, pre |-> raw]
             /\ input = Idle /\ output = Idle
          \/ /\ input = Timestamp_fmt(raw)
             /\ output = Timestamp_parse(input)
             /\ output.ok
             /\ timestamp = output.value
             /\ call = [op |-> "parse", arg |-> 0, pre |-> timestamp]

\* Timestamp::set, with field values of any size, on a timestamp made with
\* new.
Set ==
    /\ pc = "raw"
    /\ call.op = "new"
    /\ \E raw \in RawTimestamps :
          /\ timestamp' = Timestamp_set(timestamp, raw.hours, raw.minutes, raw.seconds,
                                        raw.milliseconds)
          /\ call' = [op |-> "set", arg |-> 0, pre |-> timestamp']
    /\ pc' = "raw"
    /\ steps' = 0
    /\ UNCHANGED <<overflow_checks, panic, input, output, subs, rendered, subtitle>>

\* The first shifting call after new, set or parse: `after` is the state the
\* call leaves.
RawCall(op, arg, after) ==
    /\ pc = "raw"
    /\ timestamp' = after.t
    /\ panic' = after.panic
    /\ call' = [op |-> op, arg |-> arg, pre |-> timestamp]
    /\ steps' = 1
    /\ pc' = "raw_called"
    /\ UNCHANGED <<overflow_checks, input, output, subs, rendered, subtitle>>

RawAddHours == \E n \in Deltas : RawCall("add_hours", n, add_hours(Running(timestamp), n))

RawAddMinutes ==
    \E n \in Deltas : RawCall("add_minutes", n, add_minutes(Running(timestamp), n))

RawAddSeconds ==
    \E n \in Deltas : RawCall("add_seconds", n, add_seconds(Running(timestamp), n))

RawAddMilliseconds ==
    \E n \in Deltas :
        RawCall("add_milliseconds", n, add_milliseconds(Running(timestamp), n))

RawNext == Set \/ RawAddHours \/ RawAddMinutes \/ RawAddSeconds \/ RawAddMilliseconds

RawSpec == RawInit /\ [][RawNext]_vars

\* The first call after new, set or parse returned, and the fields it was
\* made on were not all in range.
RenormalizingCall ==
    pc = "raw_called" /\ panic = NoPanic /\ ~Normalized(call.pre)

\* C15 as stated: after new, set or parse with a field out of range, the
\* next call of add_hours .. add_milliseconds that does not fail, with any
\* delta, leaves minutes and seconds in 0..59 and milliseconds in 0..999.
C15_NextCallRenormalizes ==
    RenormalizingCall => InRange(timestamp)

\* C15, amended: the call brings into range the field it is named for and
\* the coarser ones, and leaves the finer fields as they were: all fields
\* after add_milliseconds, minutes and seconds after add_seconds, minutes
\* after add_minutes, none after add_hours.
C15_RenormalizesFromOwnField ==
    RenormalizingCall =>
        CASE call.op = "add_milliseconds" -> InRange(timestamp)
          [] call.op = "add_seconds" ->
                /\ timestamp.minutes <= 59 /\ timestamp.seconds <= 59
                /\ timestamp.milliseconds = call.pre.milliseconds
          [] call.op = "add_minutes" ->
                /\ timestamp.minutes <= 59
                /\ timestamp.seconds = call.pre.seconds
                /\ timestamp.milliseconds = call.pre.milliseconds
          [] call.op = "add_hours" ->
                /\ timestamp.minutes = call.pre.minutes
                /\ timestamp.seconds = call.pre.seconds
                /\ timestamp.milliseconds = call.pre.milliseconds

\* C15 witness: add_seconds(0) returned on a timestamp created with minutes,
\* seconds and milliseconds out of range.
C15_Witness ==
    /\ RenormalizingCall
    /\ steps = 1
    /\ call.op = "add_seconds" /\ call.arg = 0
    /\ call.pre.minutes > 59 /\ call.pre.seconds > 59 /\ call.pre.milliseconds > 999
    /\ timestamp.minutes <= 59 /\ timestamp.seconds <= 59
    /\ timestamp.milliseconds > 999

(***************************************************************************)
(* The program of tests::add_time_subtitle's add(&t2), on a Timestamp: a   *)
(* timestamp with all fields in range is moved by another one, forward     *)
(* with add or backward with sub.                                          *)
(***************************************************************************)
\* Timestamps with all fields in range, at the ends of each field's range
\* and inside it.
NormalTimestamps ==
    { Timestamp_new(h, m, sec, ms) :
        h \in {0, 1, 127, 254, 255}, m \in {0, 1, 59}, sec \in {0, 1, 59},
        ms \in {0, 1, 999} }

SumInit ==
    /\ overflow_checks \in BOOLEAN
    /\ timestamp \in NormalTimestamps
    /\ panic = NoPanic
    /\ call = [op |-> "new", arg |-> 0, pre |-> timestamp]
    /\ steps = 0
    /\ input = Idle /\ output = Idle /\ subs = Idle /\ rendered = Idle
    /\ subtitle = Idle
    /\ pc = "sum"

\* One add or sub on the timestamp: `after` is the state the call leaves.
SumCall(op, arg, after) ==
    /\ pc = "sum"
    /\ timestamp' = after.t
    /\ panic' = after.panic
    /\ call' = [op |-> op, arg |-> arg, pre |-> timestamp]
    /\ steps' = 1
    /\ pc' = "sum_called"
    /\ UNCHANGED <<overflow_checks, input, output, subs, rendered, subtitle>>

SumAdd == \E d \in NormalTimestamps : SumCall("add", d, add(Running(timestamp), d))

SumSub == \E d \in NormalTimestamps : SumCall("sub", d, sub(Running(timestamp), d))

SumNext == SumAdd \/ SumSub

SumSpec == SumInit /\ [][SumNext]_vars

\* The exact result of add (sub) of d on t, in milliseconds.
ExactSum(op, t, d) == IF op = "add" THEN Total(t) + Total(d) ELSE Total(t) - Total(d)

\* C16 as stated: there are a timestamp t and a delta d, both with all
\* fields in range, for which add(d) or sub(d) fails although the exact
\* result lies within 00:00:00,000 .. 255:59:59,999.
C16_FailsThoughExactInRange ==
    \E op \in {"add", "sub"}, t \in NormalTimestamps, d \in NormalTimestamps :
        /\ Call(op, d, t).panic # NoPanic
        /\ ExactSum(op, t, d) \in 0..MaxTotal

\* C16, amended: with all fields of t and d in range, add(d) and sub(d) fail
\* exactly when the exact result lies outside 00:00:00,000 ..
\* 255:59:59,999 (the four field deltas of one call have one sign, so no
\* later field cancels an earlier overflow), and a call that does not fail
\* leaves the exact result.
C16_FailsOnlyWhenExactOutOfRange ==
    pc = "sum_called" =>
        /\ panic # NoPanic <=> ExactSum(call.op, call.pre, call.arg) \notin 0..MaxTotal
        /\ panic = NoPanic =>
              timestamp = FromTotal(ExactSum(call.op, call.pre, call.arg))

\* C16 witness: an add failed at a field after the hours (the hours of t and
\* d together are within 255).
C16_Witness ==
    /\ pc = "sum_called"
    /\ panic # NoPanic
    /\ call.op = "add"
    /\ call.pre.hours + call.arg.hours <= 255
    /\ timestamp.hours = 255

====
